---- MODULE Spec2Model ----
(***************************************************************************)
(* Model of the two smartfood inference services:                          *)
(*   cnn_predict.py   image classification (Food-101 labels, top-5)        *)
(*   lstm_predict.py  eating-pattern / calorie prediction                  *)
(* Python lists are 0-based: vectors and the class table are functions on  *)
(* 0..n-1; lists built by the code (top_5) are TLA+ sequences, entry k of  *)
(* the Python list being element k+1.                                      *)
(***************************************************************************)
EXTENDS Integers, Sequences, FiniteSets, TLC

VARIABLES
  svc,             \* the script this process runs: "cnn" or "lstm"
  pc,              \* position of main(): "start" (before the pre-load) or "serving"
  exists,          \* storage: for each artifact path, whether the file exists
  MODEL_PATH,      \* the module-level MODEL_PATH (resolved at import)
  _model,          \* the cached model handle
  _scaler_params,  \* lstm: the cached scaler_params.json
  _model_config,   \* lstm: the cached model_config.json
  last,            \* what the last step did: the request, the calls made, the response
  predictions,     \* normaliser: the raw output vector predictions[0]
  result           \* normaliser: the dict predict returns for it

vars == <<svc, pc, exists, MODEL_PATH, _model, _scaler_params, _model_config,
          last, predictions, result>>

\* Length of the class table and of the model's output vector in the model
\* (101 in the program: NUM_CLASSES, len(FOOD_CLASSES)).
NumClasses == 6

\* The number of entries kept by predict: the 5 of [-5:].
TopK == 5

\* Largest score level a model output holds in the model; floats are
\* modelled by the integers 0..MaxScore, ordered as the floats are.
MaxScore == 2

Scores == 0..MaxScore

None == [kind |-> "None"]

\* Python's None as the value of a path
NoPath == "None"

\* raise exc("what ... path")
Raise(exc, what, path) == [kind |-> "raise", exc |-> exc, what |-> what, path |-> path]

\* The first labels of FOOD_CLASSES, each a sequence of characters.
FoodTable ==
  << <<"a","p","p","l","e","_","p","i","e">>,
     <<"b","a","b","y","_","b","a","c","k","_","r","i","b","s">>,
     <<"b","a","k","l","a","v","a">>,
     <<"b","e","e","f","_","c","a","r","p","a","c","c","i","o">>,
     <<"b","e","e","f","_","t","a","r","t","a","r","e">>,
     <<"b","e","e","t","_","s","a","l","a","d">>,
     <<"b","e","i","g","n","e","t","s">>,
     <<"b","i","b","i","m","b","a","p">>,
     <<"b","r","e","a","d","_","p","u","d","d","i","n","g">>,
     <<"b","r","e","a","k","f","a","s","t","_","b","u","r","r","i","t","o">> >>

\* FOOD_CLASSES[i], i in 0..NumClasses-1.
FOOD_CLASSES == [i \in 0..(NumClasses - 1) |-> FoodTable[i + 1]]

\* Faulty variant: str.replace('_', ' ', 1)
ReplaceFirstUnderscore(s) ==
  [k \in 1..Len(s) |->
     IF s[k] = "_" /\ (\A j \in 1..(k - 1) : s[j] # "_") THEN " " ELSE s[k]]

\* str.replace('_', ' ')
ReplaceUnderscore(s) == [k \in 1..Len(s) |-> IF s[k] = "_" THEN " " ELSE s[k]]

\* np.argsort(v) with the default kind: every index order that sorts v
\* ascending; the order of equal scores is not specified by the sort.
RECURSIVE SortedOrders(_, _)
SortedOrders(v, S) ==
  IF S = {} THEN {<<>>}
  ELSE UNION { { <<i>> \o p : p \in SortedOrders(v, S \ {i}) } :
               i \in {j \in S : \A k \in S : v[j] <= v[k]} }

Argsort(v) == SortedOrders(v, DOMAIN v)

\* Faulty variant: p[:k]
FirstK(p, k) == IF Len(p) <= k THEN p ELSE SubSeq(p, 1, k)

\* p[-k:]
LastK(p, k) == IF Len(p) <= k THEN p ELSE SubSeq(p, Len(p) - k + 1, Len(p))

\* p[::-1]
Reversed(p) == [k \in 1..Len(p) |-> p[Len(p) + 1 - k]]

\* Faulty variant: the slice without its [::-1]
TopIndicesUnreversed(p) == LastK(p, TopK)

\* np.argsort(predictions[0])[-5:][::-1], for one outcome p of the sort
TopIndices(p) == Reversed(LastK(p, TopK))

\* Faulty variant: an index outside the table is clamped to the last class
NormalizeClamped(v, p) ==
  LET clamp(i) == IF i \in DOMAIN FOOD_CLASSES THEN i ELSE NumClasses - 1
      top_5_indices == TopIndices(p)
      top_index == clamp(top_5_indices[1])
  IN  [kind |-> "result",
       class |-> FOOD_CLASSES[top_index],
       label |-> ReplaceUnderscore(FOOD_CLASSES[top_index]),
       confidence |-> v[top_index],
       top_5 |-> [k \in 1..Len(top_5_indices) |->
                    [label |-> FOOD_CLASSES[clamp(top_5_indices[k])],
                     score |-> v[clamp(top_5_indices[k])]]]]

\* Faulty variant: the top prediction read from top_5_indices[-1]
NormalizeTopLast(v, p) ==
  LET top_5_indices == TopIndices(p)
      top_index == top_5_indices[Len(top_5_indices)]
  IN  IF \E k \in 1..Len(top_5_indices) : top_5_indices[k] \notin DOMAIN FOOD_CLASSES
      THEN Raise("IndexError", "list index out of range", NoPath)
      ELSE [kind |-> "result",
            class |-> FOOD_CLASSES[top_index],
            label |-> ReplaceUnderscore(FOOD_CLASSES[top_index]),
            confidence |-> v[top_index],
            top_5 |-> [k \in 1..Len(top_5_indices) |->
                         [label |-> FOOD_CLASSES[top_5_indices[k]],
                          score |-> v[top_5_indices[k]]]]]

\* The body of predict after model.predict: the result dict, or the
\* IndexError of FOOD_CLASSES[idx] for an index outside the table.
Normalize(v, p) ==
  LET top_5_indices == TopIndices(p)
      top_index == top_5_indices[1]
  IN  IF \E k \in 1..Len(top_5_indices) : top_5_indices[k] \notin DOMAIN FOOD_CLASSES
      THEN Raise("IndexError", "list index out of range", NoPath)
      ELSE [kind |-> "result",
            class |-> FOOD_CLASSES[top_index],
            label |-> ReplaceUnderscore(FOOD_CLASSES[top_index]),
            confidence |-> v[top_index],
            top_5 |-> [k \in 1..Len(top_5_indices) |->
                         [label |-> FOOD_CLASSES[top_5_indices[k]],
                          score |-> v[top_5_indices[k]]]]]


(***************************************************************************)
(* Storage, exceptions and the step record shared by the two services.    *)
(***************************************************************************)

\* cnn_predict.py: MODEL_DIR / 'food_classifier_best.keras' and
\* MODEL_DIR_ALT / 'food_classifier_best.keras'
CnnPrimaryPath == "data/models/cnn/food_classifier_best.keras"
CnnAltPath == "notebooks/data/models/cnn/food_classifier_best.keras"

\* lstm_predict.py: MODEL_PATH, SCALER_PATH, CONFIG_PATH
LstmModelPath == "data/models/lstm/eating_pattern_model.h5"
SCALER_PATH == "data/models/lstm/scaler_params.json"
CONFIG_PATH == "data/models/lstm/model_config.json"

Paths(s) == IF s = "cnn" THEN {CnnPrimaryPath, CnnAltPath}
            ELSE {LstmModelPath, SCALER_PATH, CONFIG_PATH}

\* A loaded keras model
Model == [kind |-> "model"]

NoError == [kind |-> "none"]

\* What load_model did: load is "cached" (early return), "loaded" (read from
\* storage and returned) or "raise"; the three cached values after the call.
Loaded(how, err, m, s, c) ==
  [load |-> how, err |-> err, model |-> m, scaler |-> s, config |-> c]

\* The module-level resolution of MODEL_PATH in cnn_predict.py
ResolveModelPath(ex) ==
  IF ex[CnnPrimaryPath] THEN CnnPrimaryPath
  ELSE IF ex[CnnAltPath] THEN CnnAltPath
  ELSE NoPath

\* What a predict call did: its return value or exception, the cached values
\* after it, and which of its callees ran.
Called(ret, ld, pre, inv) ==
  [ret |-> ret, model |-> ld.model, scaler |-> ld.scaler, config |-> ld.config,
   load |-> ld.load, preprocessed |-> pre, invoked |-> inv]

(***************************************************************************)
(* cnn_predict.py                                                          *)
(***************************************************************************)

\* Faulty variant: load_model without its early return of the cached handle
CnnLoadModelUncached(m, path, ex, loadOk) ==
  IF path = NoPath \/ ~ex[path]
  THEN [load |-> "raise", err |-> Raise("FileNotFoundError", "CNN model not found", path),
        model |-> m, scaler |-> None, config |-> None]
  ELSE [load |-> "loaded", err |-> [kind |-> "none"],
        model |-> [kind |-> "model"], scaler |-> None, config |-> None]

\* Faulty variant: load_model probing the two candidate paths at each call
CnnLoadModelProbing(m, path, ex, loadOk) ==
  IF m # None THEN Loaded("cached", NoError, m, None, None)
  ELSE IF ResolveModelPath(ex) = NoPath
       THEN Loaded("raise", Raise("FileNotFoundError", "CNN model not found", path),
                   m, None, None)
  ELSE IF ~loadOk
       THEN Loaded("raise", Raise("LoadError", "load_model failed", path), m, None, None)
  ELSE Loaded("loaded", NoError, Model, None, None)

\* load_model of cnn_predict.py; loadOk: whether tf.keras.models.load_model
\* returns (it raises on an unreadable artifact).
CnnLoadModel(m, path, ex, loadOk) ==
  IF m # None THEN Loaded("cached", NoError, m, None, None)
  ELSE IF path = NoPath \/ ~ex[path]
       THEN Loaded("raise", Raise("FileNotFoundError", "CNN model not found", path),
                   m, None, None)
  ELSE IF ~loadOk
       THEN Loaded("raise", Raise("LoadError", "load_model failed", path), m, None, None)
  ELSE Loaded("loaded", NoError, Model, None, None)

\* The values the `image` field of a request takes
ImageFields ==
  {[kind |-> k] : k \in {"absent", "empty", "image", "bad_base64",
                         "not_an_image", "not_a_string"}}

\* Faulty variant: preprocess_image without its try/except: a bad image goes on
preprocess_image_unchecked(image) == [kind |-> "array", shape |-> <<1, 224, 224, 3>>]

\* preprocess_image: every failure of b64decode, Image.open, convert or
\* resize is re-raised as ValueError("Failed to preprocess image: ...")
preprocess_image(image) ==
  IF image.kind = "image" THEN [kind |-> "array", shape |-> <<1, 224, 224, 3>>]
  ELSE Raise("ValueError", "Failed to preprocess image", NoPath)

\* Faulty variant: predict decoding the image before it loads the model
CnnPredictDecodeFirst(image, m, path, ex, loadOk, out, p) ==
  LET img_array == preprocess_image(image)
      ld == CnnLoadModel(m, path, ex, loadOk)
  IN  IF img_array.kind = "raise"
      THEN Called(img_array, Loaded("none", NoError, m, None, None), TRUE, FALSE)
      ELSE IF ld.load = "raise" THEN Called(ld.err, ld, TRUE, FALSE)
      ELSE IF out.kind = "raise" THEN Called(out, ld, TRUE, TRUE)
      ELSE Called(Normalize(out.v, p), ld, TRUE, TRUE)

\* predict of cnn_predict.py; out is what model.predict does (an output
\* vector or an exception), p the order np.argsort gives that vector.
CnnPredict(image, m, path, ex, loadOk, out, p) ==
  LET ld == CnnLoadModel(m, path, ex, loadOk)
  IN  IF ld.load = "raise" THEN Called(ld.err, ld, FALSE, FALSE)
      ELSE LET img_array == preprocess_image(image)
           IN  IF img_array.kind = "raise" THEN Called(img_array, ld, TRUE, FALSE)
               ELSE IF out.kind = "raise" THEN Called(out, ld, TRUE, TRUE)
               ELSE Called(Normalize(out.v, p), ld, TRUE, TRUE)

(***************************************************************************)
(* lstm_predict.py                                                         *)
(***************************************************************************)

\* The shape predict documents for its argument: 14 time steps x 9 features
TimeSteps == 14
Features == 9

\* Contents scaler_params.json may hold
ScalerFiles ==
  {[kind |-> "scaler", min |-> <<0>>, max |-> <<1000>>],
   [kind |-> "scaler", min |-> <<200>>, max |-> <<200>>]}

\* Contents model_config.json may hold: the category names of the model, a
\* list shorter than the model's categorical head, or no food_categories key
ConfigFiles ==
  {[kind |-> "config", has_categories |-> TRUE,
    food_categories |-> <<"breakfast", "lunch", "dinner">>],
   [kind |-> "config", has_categories |-> TRUE, food_categories |-> <<"breakfast">>],
   [kind |-> "config", has_categories |-> FALSE, food_categories |-> <<>>]}

\* load_model of lstm_predict.py. The three globals are assigned one after
\* the other, so an exception leaves the ones before it assigned.
\* loadOk: whether tf.keras.models.load_model returns; sf, cf: the contents
\* of the two JSON files.
LstmLoadModel(m, s, c, ex, loadOk, sf, cf) ==
  IF m # None THEN Loaded("cached", NoError, m, s, c)
  ELSE IF ~ex[LstmModelPath]
       THEN Loaded("raise", Raise("FileNotFoundError", "Model not found", LstmModelPath),
                   m, s, c)
  ELSE IF ~loadOk
       THEN Loaded("raise", Raise("LoadError", "load_model failed", LstmModelPath), m, s, c)
  ELSE IF ~ex[SCALER_PATH]
       THEN Loaded("raise",
                   Raise("FileNotFoundError", "No such file or directory", SCALER_PATH),
                   Model, s, c)
  ELSE IF ~ex[CONFIG_PATH]
       THEN Loaded("raise",
                   Raise("FileNotFoundError", "No such file or directory", CONFIG_PATH),
                   Model, sf, c)
  ELSE Loaded("loaded", NoError, Model, sf, cf)

\* A list-valued `sequence` field: its number of rows, the length of its
\* rows, whether all rows have that length, whether all entries are numbers
SeqOf(steps, feats, uniform, numeric) ==
  [kind |-> "list", steps |-> steps, feats |-> feats,
   uniform |-> uniform, numeric |-> numeric]

\* The values the `sequence` field of a request takes
SequenceFields ==
  {[kind |-> "absent"], [kind |-> "empty"],
   SeqOf(TimeSteps, Features, TRUE, TRUE),
   SeqOf(TimeSteps - 1, Features, TRUE, TRUE),
   SeqOf(TimeSteps, Features - 1, TRUE, TRUE),
   SeqOf(TimeSteps, Features, FALSE, TRUE),
   SeqOf(TimeSteps, Features, TRUE, FALSE)}

\* np.array([sequence], dtype=np.float32): ValueError for rows of unequal
\* length or entries that are no numbers, else an array of the list's shape
ToArray(sequence) ==
  IF ~sequence.uniform \/ ~sequence.numeric
  THEN Raise("ValueError", "setting an array element with a sequence", NoPath)
  ELSE [kind |-> "array", shape |-> <<1, sequence.steps, sequence.feats>>]

\* A float is modelled by the rational num/den it holds, in lowest terms
\* with den > 0 (the values of the model are exact in float32).
RECURSIVE Gcd(_, _)
Gcd(a, b) == IF b = 0 THEN a ELSE Gcd(b, a % b)

Abs(a) == IF a < 0 THEN -a ELSE a

Rat(n, d) ==
  LET g == Gcd(Abs(n), d)
  IN  [num |-> n \div g, den |-> d \div g]

\* Faulty variant: the scaling by max instead of by max - min
DenormalizeByMax(calories_pred, cal_min, cal_max) ==
  Rat(calories_pred.num * cal_max + cal_min * calories_pred.den, calories_pred.den)

\* calories_pred * (cal_max - cal_min) + cal_min
Denormalize(calories_pred, cal_min, cal_max) ==
  Rat(calories_pred.num * (cal_max - cal_min) + cal_min * calories_pred.den,
      calories_pred.den)

\* Faulty variant: the last index holding the maximum
ArgmaxLast(v) ==
  CHOOSE i \in DOMAIN v :
    /\ \A k \in DOMAIN v : v[k] <= v[i]
    /\ \A k \in DOMAIN v : k > i => v[k] < v[i]

\* np.argmax: the first index holding the maximum
Argmax(v) ==
  CHOOSE i \in DOMAIN v :
    /\ \A k \in DOMAIN v : v[k] <= v[i]
    /\ \A k \in DOMAIN v : k < i => v[k] < v[i]

\* Faulty variant: the body of predict without the lookup of the category name
LstmNormalizeNoLookup(out, scaler_params, model_config) ==
  LET calories_pred == out.cal
      category_pred == out.cat
  IN  IF scaler_params = None
      THEN Raise("TypeError", "'NoneType' object is not subscriptable", NoPath)
      ELSE
      LET cal_min == scaler_params.min[1]
          cal_max == scaler_params.max[1]
          category_index == Argmax(category_pred)
      IN  [kind |-> "result",
           calories |-> Denormalize(calories_pred, cal_min, cal_max),
           category |-> category_index,
           categoryConfidence |-> category_pred[category_index]]

\* The body of predict after model.predict: denormalisation, argmax, the
\* lookup of the category name, the result dict. Subscripting None raises
\* TypeError, a missing key KeyError, a list index out of range IndexError.
LstmNormalize(out, scaler_params, model_config) ==
  LET calories_pred == out.cal
      category_pred == out.cat
  IN  IF scaler_params = None
      THEN Raise("TypeError", "'NoneType' object is not subscriptable", NoPath)
      ELSE
      LET cal_min == scaler_params.min[1]
          cal_max == scaler_params.max[1]
          predicted_calories == Denormalize(calories_pred, cal_min, cal_max)
          category_index == Argmax(category_pred)
      IN  IF model_config = None
          THEN Raise("TypeError", "'NoneType' object is not subscriptable", NoPath)
          ELSE IF ~model_config.has_categories
          THEN Raise("KeyError", "food_categories", NoPath)
          ELSE IF category_index + 1 > Len(model_config.food_categories)
          THEN Raise("IndexError", "list index out of range", NoPath)
          ELSE [kind |-> "result",
                calories |-> predicted_calories,
                category |-> category_index,
                categoryConfidence |-> category_pred[category_index]]

\* predict of lstm_predict.py; out is what model.predict does with the array
\* (outputs or an exception).
LstmPredict(sequence, m, s, c, ex, loadOk, sf, cf, out) ==
  LET ld == LstmLoadModel(m, s, c, ex, loadOk, sf, cf)
  IN  IF ld.load = "raise" THEN Called(ld.err, ld, FALSE, FALSE)
      ELSE LET sequence_array == ToArray(sequence)
           IN  IF sequence_array.kind = "raise" THEN Called(sequence_array, ld, TRUE, FALSE)
               ELSE IF out.kind = "raise" THEN Called(out, ld, TRUE, TRUE)
               ELSE Called(LstmNormalize(out, ld.scaler, ld.config), ld, TRUE, TRUE)

(***************************************************************************)
(* The HTTP surface of main() in --server mode (the same in both scripts) *)
(***************************************************************************)

\* The exception classes the model raises; each is a subclass of Exception.
ExceptionClasses ==
  {"FileNotFoundError", "LoadError", "ValueError", "ModelError", "TypeError",
   "KeyError", "IndexError", "AttributeError", "BadRequest"}

\* Faulty variant: except ValueError as e
CatchesValueErrorOnly(exc) == exc = "ValueError"

\* except Exception as e
Catches(exc) == exc \in ExceptionClasses

\* jsonify(body), status
Response(status, body) == [kind |-> "response", status |-> status, body |-> body]

\* {'error': str(e)}
ErrorBody(what, path) == [kind |-> "error", what |-> what, path |-> path]

\* A POST /predict request: its body is no JSON ("unparsable"), empty JSON
\* (null, {}, []...), a non-empty JSON array, or a JSON object with the field
Requests(fields) ==
  {[body |-> b, field |-> [kind |-> "absent"]] : b \in {"unparsable", "empty", "array"}}
    \cup {[body |-> "object", field |-> f] : f \in fields}

NoRequest == [body |-> "none", field |-> [kind |-> "absent"]]

\* The record of a step
StepRecord(op, req, call, raised, escaped, status, body) ==
  [op |-> op, req |-> req, load |-> call.load, preprocessed |-> call.preprocessed,
   invoked |-> call.invoked, raised |-> raised, escaped |-> escaped,
   status |-> status, body |-> body]

\* A predict or load_model call that was not made
NotCalled(m, s, c) == Called(None, Loaded("none", NoError, m, s, c), FALSE, FALSE)

\* A step that serves no request
IdleStep(op) == StepRecord(op, NoRequest, NotCalled(None, None, None), NoError, FALSE, 0, None)

\* predict_endpoint: the try block returns a response or raises, the except
\* clause turns the exception into a 500. call is what predict(field) does
\* when the handler reaches it; missing is the handler's 'Missing ...' text.
PredictEndpoint(req, missing, call, m, s, c) ==
  LET skipped == NotCalled(m, s, c)
      tried ==
        IF req.body = "unparsable"
        THEN [call |-> skipped,
              out |-> Raise("BadRequest", "Failed to decode JSON object", NoPath)]
        ELSE IF req.body = "empty"
        THEN [call |-> skipped,
              out |-> Response(400, ErrorBody("No JSON data provided", NoPath))]
        ELSE IF req.body = "array"
        THEN [call |-> skipped,
              out |-> Raise("AttributeError", "'list' object has no attribute 'get'", NoPath)]
        ELSE IF req.field.kind \in {"absent", "empty"}
        THEN [call |-> skipped, out |-> Response(400, ErrorBody(missing, NoPath))]
        ELSE IF call.ret.kind = "raise"
        THEN [call |-> call, out |-> call.ret]
        ELSE [call |-> call, out |-> Response(200, call.ret)]
      out == tried.out
  IN  [model |-> tried.call.model, scaler |-> tried.call.scaler, config |-> tried.call.config,
       step |->
         IF out.kind = "response"
         THEN StepRecord("predict", req, tried.call, NoError, FALSE, out.status, out.body)
         ELSE IF Catches(out.exc)
         THEN StepRecord("predict", req, tried.call, out, FALSE, 500,
                         ErrorBody(out.what, out.path))
         ELSE StepRecord("predict", req, tried.call, out, TRUE, 0, None)]

\* Faulty variant: health that reports the resolved path without probing storage
ModelAvailableIfResolved(path, ex) == path # NoPath

\* MODEL_PATH.exists() if MODEL_PATH else False
ModelAvailable(path, ex) == IF path # NoPath THEN ex[path] ELSE FALSE

\* health
Health(m, path, ex) ==
  Response(200, [kind |-> "health", status |-> "ok",
                 model_loaded |-> (m # None),
                 model_available |-> ModelAvailable(path, ex)])

\* What model.predict does in the image service: it raises, or returns one
\* of these vectors (the third from a model with one class more than the table)
CnnOutputs ==
  {[i \in 0..(NumClasses - 1) |-> i],
   [i \in 0..(NumClasses - 1) |-> NumClasses - i],
   [i \in 0..NumClasses |-> i]}

CnnModelOutcomes ==
  {[kind |-> "output", v |-> v] : v \in CnnOutputs}
    \cup {Raise("ModelError", "model.predict failed", NoPath)}

\* What model.predict does in the sequence service: it raises, or returns a
\* calorie score and a categorical vector
CatVector(a, b, c) == [i \in {0, 1, 2} |-> <<a, b, c>>[i + 1]]

CatVectors == {CatVector(0, 0, 1), CatVector(1, 0, 1), CatVector(0, 1, 1), CatVector(0, 0, 0)}

LstmModelOutcomes ==
  {[kind |-> "output", cal |-> k, cat |-> v] : k \in {Rat(0, 1), Rat(1, 2)}, v \in CatVectors}
    \cup {Raise("ModelError", "model.predict failed", NoPath)}

Init ==
  /\ svc \in {"cnn", "lstm"}
  /\ pc = "start"
  /\ exists \in [Paths(svc) -> BOOLEAN]
  /\ MODEL_PATH = IF svc = "cnn" THEN ResolveModelPath(exists) ELSE LstmModelPath
  /\ _model = None
  /\ _scaler_params = None
  /\ _model_config = None
  /\ last = IdleStep("start")
  /\ predictions = None
  /\ result = None

\* The inputs a load_model call reads: whether tf.keras.models.load_model
\* returns, and the contents of the two JSON files. A call that returns the
\* cached handle reads none of them.
LoadInputs(m) ==
  IF m # None
  THEN {[loadOk |-> TRUE, sf |-> sf, cf |-> cf] :
          sf \in {CHOOSE x \in ScalerFiles : TRUE}, cf \in {CHOOSE x \in ConfigFiles : TRUE}}
  ELSE [loadOk : BOOLEAN, sf : ScalerFiles, cf : ConfigFiles]

\* Whether predict_endpoint reaches its call of predict
ReachesPredict(req) == req.body = "object" /\ req.field.kind \notin {"absent", "empty"}

\* main(): the pre-load of the model in try/except before app.run
Preload ==
  /\ pc = "start"
  /\ \E in \in LoadInputs(_model) :
       LET ld == IF svc = "cnn"
                 THEN CnnLoadModel(_model, MODEL_PATH, exists, in.loadOk)
                 ELSE LstmLoadModel(_model, _scaler_params, _model_config, exists,
                                    in.loadOk, in.sf, in.cf)
           escaped == ld.load = "raise" /\ ~Catches(ld.err.exc)
       IN  /\ _model' = ld.model
           /\ _scaler_params' = ld.scaler
           /\ _model_config' = ld.config
           /\ pc' = IF escaped THEN "exited" ELSE "serving"
           /\ last' = StepRecord("preload", NoRequest, Called(None, ld, FALSE, FALSE),
                                 ld.err, escaped, 0, None)
  /\ UNCHANGED <<svc, exists, MODEL_PATH, predictions, result>>

\* POST /predict of cnn_predict.py. The inputs of calls the handler does not
\* reach are not enumerated.
CnnPredictEndpoint ==
  /\ svc = "cnn"
  /\ pc = "serving"
  /\ \E req \in Requests(ImageFields) :
     \E in \in (IF ReachesPredict(req) THEN LoadInputs(_model) ELSE LoadInputs(Model)) :
     \E out \in (IF ReachesPredict(req) THEN CnnModelOutcomes
                 ELSE {Raise("ModelError", "model.predict failed", NoPath)}) :
     \E p \in (IF out.kind = "output" THEN Argsort(out.v) ELSE {<<>>}) :
     \E h \in {PredictEndpoint(req, "Missing image",
                               CnnPredict(req.field, _model, MODEL_PATH, exists,
                                          in.loadOk, out, p),
                               _model, _scaler_params, _model_config)} :
       /\ _model' = h.model
       /\ last' = h.step
  /\ UNCHANGED <<svc, pc, exists, MODEL_PATH, _scaler_params, _model_config,
                 predictions, result>>

\* POST /predict of lstm_predict.py. The inputs of calls the handler does not
\* reach are not enumerated.
LstmPredictEndpoint ==
  /\ svc = "lstm"
  /\ pc = "serving"
  /\ \E req \in Requests(SequenceFields) :
     \E in \in (IF ReachesPredict(req) THEN LoadInputs(_model) ELSE LoadInputs(Model)) :
     \E out \in (IF ReachesPredict(req) THEN LstmModelOutcomes
                 ELSE {Raise("ModelError", "model.predict failed", NoPath)}) :
     \E h \in {PredictEndpoint(req, "Missing sequence",
                               LstmPredict(req.field, _model, _scaler_params,
                                           _model_config, exists, in.loadOk, in.sf,
                                           in.cf, out),
                               _model, _scaler_params, _model_config)} :
       /\ _model' = h.model
       /\ _scaler_params' = h.scaler
       /\ _model_config' = h.config
       /\ last' = h.step
  /\ UNCHANGED <<svc, pc, exists, MODEL_PATH, predictions, result>>

\* GET /health (the same code in both scripts)
HealthEndpoint ==
  /\ pc = "serving"
  /\ LET r == Health(_model, MODEL_PATH, exists)
     IN  last' = StepRecord("health", NoRequest,
                            NotCalled(_model, _scaler_params, _model_config),
                            NoError, FALSE, r.status, r.body)
  /\ UNCHANGED <<svc, pc, exists, MODEL_PATH, _model, _scaler_params, _model_config,
                 predictions, result>>

\* The environment creates or deletes an artifact file
StorageChange ==
  /\ \E path \in Paths(svc) : exists' = [exists EXCEPT ![path] = ~@]
  /\ last' = IdleStep("storage")
  /\ UNCHANGED <<svc, pc, MODEL_PATH, _model, _scaler_params, _model_config,
                 predictions, result>>

Next ==
  \/ Preload
  \/ CnnPredictEndpoint
  \/ LstmPredictEndpoint
  \/ HealthEndpoint
  \/ StorageChange

Spec == Init /\ [][Next]_vars

(***************************************************************************)
(* The output normaliser of the image service on its own: every output    *)
(* vector of the length of the class table, in a process whose model is   *)
(* loaded.                                                                 *)
(***************************************************************************)

\* Output vectors of the length of the class table
Vectors == [0..(NumClasses - 1) -> Scores]

\* Output vectors of a model with one class more than the table
OversizeVectors == [0..NumClasses -> {0, 1}]

NormInit ==
  /\ svc = "cnn"
  /\ pc = "serving"
  /\ exists = [path \in Paths("cnn") |-> TRUE]
  /\ MODEL_PATH = CnnPrimaryPath
  /\ _model = Model
  /\ _scaler_params = None
  /\ _model_config = None
  /\ last = IdleStep("start")
  /\ predictions \in Vectors \cup OversizeVectors
  /\ result = None

\* POST /predict with a decodable image for which model.predict returns
\* predictions: what predict returns or raises, and the response
NormalizeStep ==
  /\ result = None
  /\ \E p \in Argsort(predictions) :
     \E req \in {[body |-> "object", field |-> [kind |-> "image"]]} :
     \E call \in {CnnPredict(req.field, _model, MODEL_PATH, exists, TRUE,
                             [kind |-> "output", v |-> predictions], p)} :
       /\ result' = call.ret
       /\ last' = PredictEndpoint(req, "Missing image", call,
                                  _model, _scaler_params, _model_config).step
  /\ UNCHANGED <<svc, pc, exists, MODEL_PATH, _model, _scaler_params, _model_config,
                 predictions>>

NormNext == NormalizeStep

SpecNorm == NormInit /\ [][NormNext]_vars

(***************************************************************************)
(* The output normaliser of the sequence service on its own: every pair   *)
(* of raw outputs, in a process whose model, scaler params and model      *)
(* config are loaded.                                                      *)
(***************************************************************************)

\* Calorie scores in normalised space, inside and outside [0, 1]
CalScores == {Rat(-1, 2), Rat(0, 1), Rat(1, 2), Rat(1, 1), Rat(3, 2)}

\* The raw outputs of model.predict: predictions[0][0][0] and predictions[1][0]
LstmRawOutputs ==
  {[kind |-> "output", cal |-> k, cat |-> v] : k \in CalScores, v \in [{0, 1, 2} -> Scores]}

LstmNormInit ==
  /\ svc = "lstm"
  /\ pc = "serving"
  /\ exists = [path \in Paths("lstm") |-> TRUE]
  /\ MODEL_PATH = LstmModelPath
  /\ _model = Model
  /\ _scaler_params \in ScalerFiles
  /\ _model_config \in ConfigFiles
  /\ last = IdleStep("start")
  /\ predictions \in LstmRawOutputs
  /\ result = None

\* POST /predict with a 14 x 9 sequence for which model.predict returns
\* predictions: what predict returns or raises, and the response
LstmNormalizeStep ==
  /\ result = None
  /\ \E req \in {[body |-> "object", field |-> SeqOf(TimeSteps, Features, TRUE, TRUE)]} :
     \E call \in {LstmPredict(req.field, _model, _scaler_params, _model_config, exists,
                              TRUE, _scaler_params, _model_config, predictions)} :
       /\ result' = call.ret
       /\ last' = PredictEndpoint(req, "Missing sequence", call,
                                  _model, _scaler_params, _model_config).step
  /\ UNCHANGED <<svc, pc, exists, MODEL_PATH, _model, _scaler_params, _model_config,
                 predictions>>

LstmNormNext == LstmNormalizeStep

SpecLstmNorm == LstmNormInit /\ [][LstmNormNext]_vars
(***************************************************************************)
(* main() in direct call mode: one prediction from argv[1], then exit     *)
(***************************************************************************)

\* argv[1] of cnn_predict.py: a string, possibly empty
CnnArgs == {[kind |-> k] : k \in {"empty", "image", "bad_base64", "not_an_image"}}

\* argv[1] of lstm_predict.py: text json.loads rejects, or the JSON text of
\* a list ([] included)
LstmArgs ==
  {[kind |-> "unparsable"], SeqOf(0, 0, TRUE, TRUE)}
    \cup {f \in SequenceFields : f.kind = "list"}

\* Faulty variant: the except clause without its sys.exit(1)
CliOutcomeNoExit(ret) ==
  IF ret.kind = "raise"
  THEN [kind |-> "process", stdout |-> None,
        stderr |-> ErrorBody(ret.what, ret.path), exit |-> 0]
  ELSE [kind |-> "process", stdout |-> ret, stderr |-> None, exit |-> 0]

\* The try/except of the direct call mode: print(json.dumps(result)), or
\* print the error object to stderr and sys.exit(1); an exception the except
\* clause does not catch ends the process with a traceback.
CliOutcome(ret) ==
  IF ret.kind = "raise"
  THEN IF Catches(ret.exc)
       THEN [kind |-> "process", stdout |-> None,
             stderr |-> ErrorBody(ret.what, ret.path), exit |-> 1]
       ELSE [kind |-> "process", stdout |-> None,
             stderr |-> [kind |-> "traceback"], exit |-> 1]
  ELSE [kind |-> "process", stdout |-> ret, stderr |-> None, exit |-> 0]

\* The record of a direct call run
CliRecord(arg, call) ==
  LET o == CliOutcome(call.ret)
  IN  StepRecord("cli", [body |-> "argv", field |-> arg], call,
                 IF call.ret.kind = "raise" THEN call.ret ELSE NoError,
                 call.ret.kind = "raise" /\ ~Catches(call.ret.exc),
                 o.exit, o)

\* python cnn_predict.py <image_base64>
CnnCliMain ==
  /\ svc = "cnn"
  /\ pc = "start"
  /\ \E arg \in CnnArgs, in \in LoadInputs(_model), out \in CnnModelOutcomes :
     \E p \in (IF out.kind = "output" THEN Argsort(out.v) ELSE {<<>>}) :
     \E call \in {CnnPredict(arg, _model, MODEL_PATH, exists, in.loadOk, out, p)} :
       /\ _model' = call.model
       /\ last' = CliRecord(arg, call)
  /\ pc' = "exited"
  /\ UNCHANGED <<svc, exists, MODEL_PATH, _scaler_params, _model_config,
                 predictions, result>>

\* python lstm_predict.py <sequence_json>
LstmCliMain ==
  /\ svc = "lstm"
  /\ pc = "start"
  /\ \E arg \in LstmArgs, in \in LoadInputs(_model), out \in LstmModelOutcomes :
     \E call \in {IF arg.kind = "unparsable"
                  THEN Called(Raise("ValueError", "Expecting value", NoPath),
                              Loaded("none", NoError, _model, _scaler_params,
                                     _model_config), FALSE, FALSE)
                  ELSE LstmPredict(arg, _model, _scaler_params, _model_config, exists,
                                   in.loadOk, in.sf, in.cf, out)} :
       /\ _model' = call.model
       /\ _scaler_params' = call.scaler
       /\ _model_config' = call.config
       /\ last' = CliRecord(arg, call)
  /\ pc' = "exited"
  /\ UNCHANGED <<svc, exists, MODEL_PATH, predictions, result>>

CliNext ==
  \/ CnnCliMain
  \/ LstmCliMain
  \/ StorageChange

SpecCli == Init /\ [][CliNext]_vars

(***************************************************************************)
(* Properties of the output normaliser (checked under SpecNorm)           *)
(***************************************************************************)

\* v has its maximum at exactly the two indices i < j
DuplicateMaxima(v, i, j) ==
  /\ i < j
  /\ v[i] = v[j]
  /\ \A k \in DOMAIN v : k \notin {i, j} => v[k] < v[i]

\* v has its maximum at m alone
UniqueMaximum(v, m) == \A k \in DOMAIN v : k # m => v[k] < v[m]

\* C1: for a score vector with duplicate maxima at indices i < j (all other
\* scores strictly smaller), rank 0 of predict's result is index i: class
\* and top_5[0].label are FOOD_CLASSES[i].
C1_TieBreakLowerIndex ==
  result.kind = "result" =>
    \A i, j \in DOMAIN predictions :
      DuplicateMaxima(predictions, i, j) =>
        /\ result.class = FOOD_CLASSES[i]
        /\ result.top_5[1].label = FOOD_CLASSES[i]

\* C5: for every output vector of the length of the class table, top_5 has
\* exactly 5 entries and their scores are non-increasing from entry 0 to 4.
C5_TopFiveSorted ==
  result.kind = "result" =>
    /\ Len(result.top_5) = 5
    /\ \A k \in 1..4 : result.top_5[k].score >= result.top_5[k + 1].score

\* A result whose top_5 holds a strict descent and a tie
C5_Witness ==
  /\ result.kind = "result"
  /\ result.top_5[1].score > result.top_5[2].score
  /\ result.top_5[2].score = result.top_5[3].score
  /\ result.top_5[4].score > result.top_5[5].score

\* C6: for every output vector with a unique maximum at index m, confidence
\* is the vector's value at m and class is FOOD_CLASSES[m].
C6_UniqueMaximum ==
  result.kind = "result" =>
    \A m \in DOMAIN predictions :
      UniqueMaximum(predictions, m) =>
        /\ result.confidence = predictions[m]
        /\ result.class = FOOD_CLASSES[m]

\* A result for a vector whose unique maximum is not at index 0
C6_Witness ==
  /\ result.kind = "result"
  /\ \E m \in DOMAIN predictions :
       /\ m > 0
       /\ UniqueMaximum(predictions, m)
       /\ result.class = FOOD_CLASSES[m]

\* Index o is among the 5 largest scores of v in every order of equal scores
CertainlyInTopFive(v, o) ==
  Cardinality({k \in DOMAIN v : k # o /\ v[k] >= v[o]}) < TopK

\* Index o is among the 5 largest scores of v in some order of equal scores
PossiblyInTopFive(v, o) ==
  Cardinality({k \in DOMAIN v : k # o /\ v[k] > v[o]}) < TopK

\* C15: when the model's output puts an index outside the class table among
\* the top 5, predict fails with IndexError and the request is answered 500;
\* the index is never clamped or wrapped to a label of the table, and
\* predict fails for no other output.
C15_OutOfRangeIndexFails ==
  result # None =>
    LET outside == DOMAIN predictions \ DOMAIN FOOD_CLASSES
    IN  /\ (\E o \in outside : CertainlyInTopFive(predictions, o))
             => result.kind = "raise"
        /\ result.kind = "raise" =>
             /\ result.exc = "IndexError"
             /\ \E o \in outside : PossiblyInTopFive(predictions, o)
             /\ last.status = 500
             /\ last.body.kind = "error"
        /\ result.kind = "result" =>
             \A k \in 1..Len(result.top_5) :
               \E i \in DOMAIN FOOD_CLASSES :
                 /\ PossiblyInTopFive(predictions, i)
                 /\ result.top_5[k].label = FOOD_CLASSES[i]
                 /\ result.top_5[k].score = predictions[i]

\* A prediction that failed on the index of the extra class
C15_Witness ==
  /\ result.kind = "raise"
  /\ CertainlyInTopFive(predictions, NumClasses)
  /\ last.status = 500

\* s holds no underscore
NoUnderscore(s) == \A k \in 1..Len(s) : s[k] # "_"

\* C16: the display transform is total and idempotent over all class
\* labels: applying it twice equals applying it once, a label without an
\* underscore is unchanged; class keeps its underscores, label has none.
C16_LabelTransform ==
  /\ \A i \in DOMAIN FOOD_CLASSES :
       LET once == ReplaceUnderscore(FOOD_CLASSES[i])
       IN  /\ ReplaceUnderscore(once) = once
           /\ NoUnderscore(once)
           /\ NoUnderscore(FOOD_CLASSES[i]) => once = FOOD_CLASSES[i]
  /\ result.kind = "result" =>
       /\ \E i \in DOMAIN FOOD_CLASSES : result.class = FOOD_CLASSES[i]
       /\ Len(result.label) = Len(result.class)
       /\ NoUnderscore(result.label)
       /\ \A k \in 1..Len(result.class) :
            result.label[k] = IF result.class[k] = "_" THEN " " ELSE result.class[k]

\* A result whose class holds two underscores (baby_back_ribs)
C16_Witness ==
  /\ result.kind = "result"
  /\ Cardinality({k \in 1..Len(result.class) : result.class[k] = "_"}) = 2
  /\ Cardinality({k \in 1..Len(result.label) : result.label[k] = " "}) = 2

\* C17: confidence equals top_5[0].score, class equals top_5[0].label, and
\* the 5 entries of top_5 come from 5 distinct class indices.
C17_ResultConsistent ==
  result.kind = "result" =>
    /\ result.confidence = result.top_5[1].score
    /\ result.class = result.top_5[1].label
    /\ Cardinality({result.top_5[k].label : k \in 1..Len(result.top_5)}) = 5
    /\ \A k \in 1..Len(result.top_5) :
         \E i \in DOMAIN FOOD_CLASSES :
           /\ result.top_5[k].label = FOOD_CLASSES[i]
           /\ result.top_5[k].score = predictions[i]

\* A result whose two best scores are equal and above its fifth
C17_Witness ==
  /\ result.kind = "result"
  /\ result.top_5[1].score = result.top_5[2].score
  /\ result.confidence > result.top_5[5].score

(***************************************************************************)
(* Properties of the services (checked under Spec)                        *)
(***************************************************************************)

\* A list-valued sequence field of 14 rows of 9 numbers
Conforms(f) ==
  f.steps = TimeSteps /\ f.feats = Features /\ f.uniform /\ f.numeric

\* The last step served a POST /predict whose field reached predict
ServedField == last.op = "predict" /\ last.req.body = "object"

\* C2: a sequence payload that does not conform to 14 time steps x 9 numeric
\* features is answered with an error and the model's predict is not invoked
\* for that request.
C2_MalformedSequenceNeverReachesModel ==
  (svc = "lstm" /\ ServedField /\ last.req.field.kind = "list"
     /\ ~Conforms(last.req.field))
    => (last.body.kind = "error" /\ ~last.invoked)

\* A payload with the required field missing, or present with the wrong shape
Malformed(s, req) ==
  \/ req.body = "object" /\ req.field.kind = "absent"
  \/ req.body = "object" /\ s = "cnn" /\ req.field.kind = "not_a_string"
  \/ req.body = "object" /\ s = "lstm" /\ req.field.kind = "list" /\ ~Conforms(req.field)

\* C3: every POST /predict whose payload is malformed (required field
\* missing, or present with the wrong shape) is answered with status 400 and
\* a JSON error object, in both services.
C3_MalformedPayloadIs400 ==
  (last.op = "predict" /\ Malformed(svc, last.req))
    => (last.status = 400 /\ last.body.kind = "error")

\* A file of the sequence service that is missing and that this process has
\* not read
MissingUnread ==
  \/ ~exists[LstmModelPath] /\ _model = None
  \/ ~exists[SCALER_PATH] /\ _scaler_params = None
  \/ ~exists[CONFIG_PATH] /\ _model_config = None

\* C4: in the sequence service, when one of the three files is missing, a
\* call of load_model (the first or a later one) fails with FileNotFoundError
\* naming a missing path. Stated for a file the process has not read and for
\* a model binary keras can read.
C4_LoadFailsWhenFileMissing ==
  (svc = "lstm" /\ last.load # "none" /\ MissingUnread
     /\ ~(last.load = "raise" /\ last.raised.exc = "LoadError"))
    => /\ last.load = "raise"
       /\ last.raised.exc = "FileNotFoundError"
       /\ ~exists[last.raised.path]

\* C7: every /predict request ends with a JSON response of status 200, 400
\* or 500, no exception escapes the handler, and the process keeps serving
\* after every request.
C7_EveryRequestAnswered ==
  /\ last.op = "predict" =>
       /\ last.status \in {200, 400, 500}
       /\ ~last.escaped
       /\ last.body.kind \in {"result", "error"}
  /\ last.op \in {"predict", "health"} => pc = "serving"

\* A request that failed inside model invocation and was answered
C7_Witness ==
  /\ last.op = "predict"
  /\ last.raised.kind = "raise"
  /\ last.raised.exc = "ModelError"
  /\ last.status = 500

\* The last step served a POST /predict whose image is malformed base64 or
\* no decodable image
UndecodableImage ==
  /\ svc = "cnn"
  /\ ServedField
  /\ last.req.field.kind \in {"bad_base64", "not_an_image"}

\* C8 as stated: an undecodable image is answered with the error object of
\* the preprocessing failure, whatever the state of the cached model.
C8_DecodeErrorWhateverModelState ==
  UndecodableImage =>
    /\ ~last.escaped
    /\ last.body.kind = "error"
    /\ last.body.what = "Failed to preprocess image"

\* C8 amended: an undecodable image is answered with a 500 JSON error object
\* and no crash; the error is the preprocessing failure when load_model
\* returned a model, and load_model's own error (the image is not decoded)
\* when it raised.
C8_DecodeErrorOnceModelLoads ==
  UndecodableImage =>
    /\ ~last.escaped
    /\ last.status = 500
    /\ last.body.kind = "error"
    /\ ~last.invoked
    /\ IF last.load \in {"cached", "loaded"}
       THEN last.body.what = "Failed to preprocess image"
       ELSE /\ last.load = "raise"
            /\ last.body.what \in {"CNN model not found", "load_model failed"}
            /\ ~last.preprocessed

\* An undecodable image answered with the preprocessing failure
C8_Witness ==
  /\ UndecodableImage
  /\ last.load = "cached"
  /\ last.body.kind = "error"
  /\ last.body.what = "Failed to preprocess image"

\* C9: /health reports model_available = false whenever the model artifact
\* path does not exist on storage at the time of the request, whatever the
\* cached handle.
C9_HealthReportsMissingArtifact ==
  (last.op = "health" /\ (MODEL_PATH = NoPath \/ ~exists[MODEL_PATH]))
    => last.body.model_available = FALSE

\* /health with the model loaded and its artifact gone from storage
C9_Witness ==
  /\ last.op = "health"
  /\ last.body.model_loaded = TRUE
  /\ last.body.model_available = FALSE

\* C10: once the cached model handle is non-None, no later step reloads the
\* artifact from storage or changes the handle, the cached scaler params or
\* the cached model config.
C10_HandleAssignedOnce ==
  [][_model # None =>
       /\ _model' = _model
       /\ _scaler_params' = _scaler_params
       /\ _model_config' = _model_config
       /\ last'.load # "loaded"]_vars

\* A prediction served from the cached handle
C10_Witness ==
  /\ last.op = "predict"
  /\ last.load = "cached"
  /\ last.status = 200
  /\ _model # None

\* An artifact of the running service that is absent from storage and that
\* the process has not read
ArtifactAbsentUnread ==
  IF svc = "cnn"
  THEN _model = None /\ (MODEL_PATH = NoPath \/ ~exists[MODEL_PATH])
  ELSE MissingUnread

\* C11: with the model or a companion config file absent, the server still
\* starts and serves; the absence is reported by /health (model_available or
\* model_loaded is false) and by an error response to a prediction attempt.
C11_AbsenceReported ==
  /\ pc # "exited"
  /\ (last.op = "health" /\ ArtifactAbsentUnread)
       => (~last.body.model_available \/ ~last.body.model_loaded)
  /\ (last.op = "predict" /\ ReachesPredict(last.req) /\ ArtifactAbsentUnread)
       => (last.status = 500 /\ last.body.kind = "error")

(***************************************************************************)
(* Properties of the sequence normaliser (checked under SpecLstmNorm)     *)
(***************************************************************************)

\* C12: calories = normalized * (max[0] - min[0]) + min[0]; with min = 0,
\* max = 1000 and normalized 0.5 the result is 500, and with min = max the
\* result is min for every normalized input.
C12_Denormalization ==
  result.kind = "result" =>
    LET x == predictions.cal
        lo == _scaler_params.min[1]
        hi == _scaler_params.max[1]
        y == result.calories
    IN  /\ y.num * x.den = (x.num * (hi - lo) + lo * x.den) * y.den
        /\ (lo = 0 /\ hi = 1000 /\ x = [num |-> 1, den |-> 2])
             => y = [num |-> 500, den |-> 1]
        /\ lo = hi => y = [num |-> lo, den |-> 1]

\* 0.5 denormalised to 500 with min = 0 and max = 1000
C12_Witness ==
  /\ result.kind = "result"
  /\ predictions.cal = [num |-> 1, den |-> 2]
  /\ _scaler_params.max[1] = 1000
  /\ result.calories = [num |-> 500, den |-> 1]

\* The degenerate scaler with a normalized input other than 0
C12_WitnessDegenerate ==
  /\ result.kind = "result"
  /\ predictions.cal = [num |-> 3, den |-> 2]
  /\ _scaler_params.min[1] = _scaler_params.max[1]
  /\ result.calories = [num |-> 200, den |-> 1]

\* C13: category is the argmax index of the categorical vector, ties broken
\* toward the lower index, and categoryConfidence is the value at that index.
C13_ArgmaxLowerIndex ==
  result.kind = "result" =>
    LET v == predictions.cat
        c == result.category
    IN  /\ c \in DOMAIN v
        /\ \A k \in DOMAIN v : v[k] <= v[c]
        /\ \A k \in DOMAIN v : v[k] = v[c] => c <= k
        /\ result.categoryConfidence = v[c]

\* A result for a vector whose maximum is held by two indices
C13_Witness ==
  /\ result.kind = "result"
  /\ \E i, j \in DOMAIN predictions.cat :
       /\ DuplicateMaxima(predictions.cat, i, j)
       /\ result.category = i

\* i is the first index that holds the maximum of v
FirstMaximum(v, i) ==
  /\ i \in DOMAIN v
  /\ \A k \in DOMAIN v : v[k] <= v[i]
  /\ \A k \in DOMAIN v : v[k] = v[i] => i <= k

\* model_config has no name at position i of food_categories
NoCategoryName(config, i) ==
  ~config.has_categories \/ i + 1 > Len(config.food_categories)

\* C21: only the integer index is emitted, yet the category name is looked
\* up in model_config's food_categories: when the argmax index is not a
\* valid position of that list (or the key is absent), predict raises and
\* the request ends in an error response instead of a result, though
\* calories, index and confidence were computable; otherwise a result with
\* the index and no name is returned.
C21_CategoryLookupCanFail ==
  result # None =>
    \E i \in DOMAIN predictions.cat :
      /\ FirstMaximum(predictions.cat, i)
      /\ NoCategoryName(_model_config, i) =>
           /\ result.kind = "raise"
           /\ result.exc = IF _model_config.has_categories THEN "IndexError"
                           ELSE "KeyError"
           /\ last.status = 500
           /\ last.body.kind = "error"
           /\ _scaler_params # None
      /\ ~NoCategoryName(_model_config, i) =>
           /\ result.kind = "result"
           /\ result.category = i
           /\ DOMAIN result = {"kind", "calories", "category", "categoryConfidence"}
           /\ last.status = 200

\* A request refused because the argmax index is past a one-name list
C21_Witness ==
  /\ result.kind = "raise"
  /\ result.exc = "IndexError"
  /\ Len(_model_config.food_categories) = 1
  /\ FirstMaximum(predictions.cat, 2)
  /\ last.status = 500

\* A request refused because model_config has no food_categories key
C21_WitnessNoKey ==
  /\ result.kind = "raise"
  /\ result.exc = "KeyError"
  /\ ~_model_config.has_categories
  /\ last.status = 500

(***************************************************************************)
(* Properties of the direct call mode (checked under SpecCli)             *)
(***************************************************************************)

\* C14: a direct call run either writes the JSON result to standard output
\* and exits with status 0, or writes a JSON error object to standard error
\* and exits with a non-zero status; never both, never neither.
C14_ResultOrError ==
  last.op = "cli" =>
    \/ /\ last.status = 0
       /\ last.body.stdout.kind = "result"
       /\ last.body.stderr = None
    \/ /\ last.status # 0
       /\ last.body.stdout = None
       /\ last.body.stderr.kind = "error"

\* A run of the sequence service that failed inside predict after the model
\* was invoked
C14_Witness ==
  /\ last.op = "cli"
  /\ svc = "lstm"
  /\ last.invoked
  /\ last.status = 1
  /\ last.body.stderr.kind = "error"

\* C18: in the sequence service the three cached values are set together:
\* whenever _model is not None, _scaler_params and _model_config are not
\* None either, also after a load attempt that failed part-way.
C18_CachesSetTogether ==
  (svc = "lstm" /\ _model # None) => (_scaler_params # None /\ _model_config # None)

\* C19: in the image service's predict, model loading precedes input
\* decoding: while no model is cached and the artifact is absent, every
\* prediction request with a non-empty image fails with the model-not-found
\* error, whatever the image, and the image is never decoded.
C19_LoadPrecedesDecode ==
  ( /\ svc = "cnn"
    /\ last.op = "predict"
    /\ ReachesPredict(last.req)
    /\ _model = None
    /\ (MODEL_PATH = NoPath \/ ~exists[MODEL_PATH]) )
  => /\ last.status = 500
     /\ last.body.kind = "error"
     /\ last.raised.exc = "FileNotFoundError"
     /\ last.raised.what = "CNN model not found"
     /\ ~last.preprocessed
     /\ ~last.invoked

\* A request with an undecodable image answered with the model-not-found error
C19_Witness ==
  /\ svc = "cnn"
  /\ last.op = "predict"
  /\ last.req.body = "object"
  /\ last.req.field.kind = "not_an_image"
  /\ last.raised.what = "CNN model not found"
  /\ ~last.preprocessed

\* What the image service does once MODEL_PATH is None
UnresolvedStep ==
  (svc = "cnn" /\ MODEL_PATH = NoPath) =>
    /\ MODEL_PATH' = NoPath
    /\ _model' = None
    /\ (last'.op = "predict" /\ ReachesPredict(last'.req)) =>
         /\ last'.status = 500
         /\ last'.raised.exc = "FileNotFoundError"
         /\ last'.raised.what = "CNN model not found"
    /\ last'.op = "health" =>
         /\ ~last'.body.model_available
         /\ ~last'.body.model_loaded

\* C20: in the image service the model path is resolved once at process
\* start from the two candidates in order; if neither exists then, every
\* prediction of the process fails with the model-not-found error and
\* /health reports model_available=false and model_loaded=false, even
\* if the artifact file is created later.
C20_PathResolvedOnce ==
  /\ svc = "cnn" =>
       /\ exists[CnnPrimaryPath] => MODEL_PATH = CnnPrimaryPath
       /\ (~exists[CnnPrimaryPath] /\ exists[CnnAltPath]) => MODEL_PATH = CnnAltPath
       /\ (~exists[CnnPrimaryPath] /\ ~exists[CnnAltPath]) => MODEL_PATH = NoPath
  /\ [][MODEL_PATH' = MODEL_PATH /\ UnresolvedStep]_vars

\* A prediction refused after the artifact appeared at the primary path
C20_Witness ==
  /\ svc = "cnn"
  /\ MODEL_PATH = NoPath
  /\ exists[CnnPrimaryPath]
  /\ last.op = "predict"
  /\ last.status = 500
  /\ last.raised.what = "CNN model not found"

====
